---- MODULE Spec2Model ----
(***************************************************************************)
(* BlockStore (consensus/src/chained_bft/block_storage/block_store.rs):    *)
(* the readers-writer-locked BlockTree, the persistent storage behind it   *)
(* and the state computer it drives.  Every acquisition of the tree lock,  *)
(* every storage call and every state-computer call of a BlockStore method *)
(* is one atomic step of the calling thread; threads interleave between    *)
(* steps.  BlockTree (block_tree.rs), PersistentStorage and StateComputer  *)
(* are modelled from their contracts.                                      *)
(***************************************************************************)
EXTENDS Integers, Sequences, FiniteSets, TLC

\* ------------------------------------------------------------------ bounds
\* Number of concurrently calling threads is fixed at two (Threads); the
\* number of BlockStore calls started in one behaviour is bounded.
MaxCalls == 3
\* max_pruned_blocks_in_mem, the configured size of the pruned window.
MaxPrunedBlocksInMem == 1

Threads == {1, 2}

\* ------------------------------------------------------- the block universe
\* Blocks are immutable values named by their id (a content hash), so the
\* round, timestamp and parent of an id never change.
\*      G --> A1 --> A2
\*      |      |--> X   (round not above its parent's)
\*      |      `--> Y   (timestamp not above its parent's)
\*      |--> F          (a fork at the root, round 3)
\*      `--> R --> E    (R changes the validator set, E has no payload)
\*           `--> P     (a block with payload under R)
G  == "G"
A1 == "A1"
A2 == "A2"
F  == "F"
X  == "X"
Y  == "Y"
R  == "R"
E  == "E"
P  == "P"
NoId == "none"
Ids == {G, A1, A2, F, X, Y}
\* The blocks around a reconfiguration.
ReconfigIds == {R, E, P}
AllIds == Ids \cup ReconfigIds

Parent == [b \in AllIds |-> CASE b = G -> NoId [] b = A1 -> G [] b = A2 -> A1
                              [] b = F -> G [] b = X -> A1 [] b = Y -> A1
                              [] b = R -> G [] b = E -> R [] b = P -> R]
Round == [b \in AllIds |-> CASE b = G -> 0 [] b = A1 -> 1 [] b = A2 -> 2
                             [] b = F -> 3 [] b = X -> 1 [] b = Y -> 2
                             [] b = R -> 1 [] b = E -> 2 [] b = P -> 3]
Timestamp == [b \in AllIds |-> CASE b = G -> 0 [] b = A1 -> 10 [] b = A2 -> 20
                                 [] b = F -> 30 [] b = X -> 20 [] b = Y -> 10
                                 [] b = R -> 10 [] b = E -> 20 [] b = P -> 30]
\* Whether executing the block's payload yields a next validator set.
Reconfig == [b \in AllIds |-> b = R]
\* Whether the block carries a non-default payload.
HasPayload == [b \in AllIds |-> b \notin {G, E}]

\* --------------------------------------------------------------- sequences
Range(s) == {s[i] : i \in 1..Len(s)}

Without(s, S) == SelectSeq(s, LAMBDA x : x \notin S)

LastN(s, n) == IF Len(s) <= n THEN s ELSE SubSeq(s, Len(s) - n + 1, Len(s))

Restrict(f, S) == [x \in S |-> f[x]]

\* The blocks of S as a sequence of non-decreasing round.
RECURSIVE SortByRound(_)
SortByRound(S) ==
    IF S = {} THEN <<>>
    ELSE LET b == CHOOSE x \in S : \A y \in S : Round[x] <= Round[y]
         IN <<b>> \o SortByRound(S \ {b})

\* Whether block b descends from block a (a itself excluded).
RECURSIVE DescendsFrom(_, _)
DescendsFrom(b, a) ==
    IF b \notin AllIds \/ Parent[b] = NoId THEN FALSE
    ELSE Parent[b] = a \/ DescendsFrom(Parent[b], a)

\* ------------------------------------------------- executor value types
\* ExecutedTrees: the transaction accumulator, as the list of the blocks
\* applied so far; its root hash (state_id) is the list itself.
NoOutput == [trees |-> <<NoId>>, validators |-> FALSE]

ProcessedVMOutput(executed_trees, validators) ==
    [trees |-> executed_trees, validators |-> validators]

\* StateComputer::compute: the deterministic result of applying the block
\* to its parent's trees.
compute(b, parent_trees) == ProcessedVMOutput(Append(parent_trees, b), Reconfig[b])

\* ProcessedVMOutput::state_compute_result: the version is the index of the
\* last leaf of the accumulator, 0 for an empty one.
version(trees) == IF Len(trees) = 0 THEN 0 ELSE Len(trees) - 1

\* ExecutedBlock::block_info
block_info(b, output) ==
    [id |-> b, round |-> Round[b], state_id |-> output.trees,
     version |-> version(output.trees), validators |-> output.validators]

\* ----------------------------------------------------- quorum certificates
NoCommit == [id |-> NoId, round |-> 0]

QuorumCert(b, trees, commit_id) ==
    [certified |-> [id |-> b, round |-> Round[b], state_id |-> trees,
                    version |-> version(trees), validators |-> FALSE],
     commit |-> IF commit_id = NoId THEN NoCommit
                ELSE [id |-> commit_id, round |-> Round[commit_id]]]

RECURSIVE TreesOf(_)
TreesOf(b) == IF b = G THEN <<>> ELSE Append(TreesOf(Parent[b]), b)

QcG  == QuorumCert(G, TreesOf(G), G)
QcA1 == QuorumCert(A1, TreesOf(A1), NoId)
QcA2 == QuorumCert(A2, TreesOf(A2), A1)
QcF  == QuorumCert(F, TreesOf(F), NoId)
\* A certificate whose executed state differs from the local execution.
QcA1Bad == QuorumCert(A1, <<F>>, NoId)
\* Timeout certificates are named by their round; 0 stands for None.
NoTC == [round |-> 0]
TC1 == [round |-> 1]
TC2 == [round |-> 2]
TCs == {TC1, TC2}

NoQC == [certified |-> [id |-> NoId], commit |-> NoCommit]

\* ------------------------------------------------------------------ votes
\* Votes are cast in round 1 for block A1; the ledger-info digest a vote
\* signs covers the executed state, so the two execution results of A1 have
\* two digests.
Authors == {"v1", "v2", "v3"}
D1 == "D1"
D2 == "D2"
Digests == {D1, D2}
VoteData == [d \in Digests |-> IF d = D1 THEN QcA1 ELSE QcA1Bad]

Vote(author, digest) ==
    [author |-> author, digest |-> digest,
     block_info |-> VoteData[digest].certified,
     commit |-> VoteData[digest].commit]

NoVote == [author |-> "none", digest |-> "none"]
Votes == {Vote(a, d) : a \in Authors, d \in Digests}

\* ValidatorVerifier: the voting power of each validator and the quorum.
SingleVerifier == [power |-> [a \in {"v1"} |-> 1], quorum |-> 1]
FourVerifier == [power |-> [a \in {"v1", "v2", "v3", "v4"} |-> 1], quorum |-> 3]
Verifiers == {SingleVerifier, FourVerifier}
NoVerifier == [power |-> [a \in {} |-> 0], quorum |-> 0]

quorum_voting_power(verifier) == verifier.quorum

\* The summed voting power of a set of authors known to the verifier.
RECURSIVE voting_power(_, _)
voting_power(verifier, authors) ==
    IF authors = {} THEN 0
    ELSE LET a == CHOOSE x \in authors : TRUE
         IN verifier.power[a] + voting_power(verifier, authors \ {a})

\* VoteReceptionResult
VoteResult(kind, count, qc) == [kind |-> kind, count |-> count, qc |-> qc]
NoVoteResult == VoteResult("none", 0, NoQC)

\* PendingVotes::new
NoPendingVotes ==
    [li_digest_to_votes |-> [d \in {} |-> {}], author_to_vote |-> [a \in {} |-> NoVote]]

\* PendingVotes::insert_vote: [pending, res]
PendingVotes_insert_vote(pending, vote, verifier) ==
    IF vote.author \notin DOMAIN verifier.power
    THEN [pending |-> pending, res |-> VoteResult("ErrorAddingVote", 0, NoQC)]
    ELSE IF /\ vote.author \in DOMAIN pending.author_to_vote
            /\ pending.author_to_vote[vote.author].digest = vote.digest
    THEN [pending |-> pending, res |-> VoteResult("DuplicateVote", 0, NoQC)]
    ELSE IF /\ vote.author \in DOMAIN pending.author_to_vote
            /\ pending.author_to_vote[vote.author].block_info.round
                 = vote.block_info.round
    THEN [pending |-> pending, res |-> VoteResult("EquivocateVote", 0, NoQC)]
    ELSE LET old == IF vote.digest \in DOMAIN pending.li_digest_to_votes
                    THEN pending.li_digest_to_votes[vote.digest]
                    ELSE [block_info |-> vote.block_info, commit |-> vote.commit,
                          authors |-> {}]
             entry == [old EXCEPT !.authors = @ \cup {vote.author}]
             power == voting_power(verifier, entry.authors)
             new == [li_digest_to_votes |->
                        [d \in DOMAIN pending.li_digest_to_votes \cup {vote.digest} |->
                            IF d = vote.digest THEN entry
                            ELSE pending.li_digest_to_votes[d]],
                     author_to_vote |->
                        [a \in DOMAIN pending.author_to_vote \cup {vote.author} |->
                            IF a = vote.author THEN vote
                            ELSE pending.author_to_vote[a]]]
         IN [pending |-> new,
             res |-> IF power >= quorum_voting_power(verifier)
                     THEN VoteResult("NewQuorumCertificate", power,
                              [certified |-> entry.block_info, commit |-> entry.commit])
                     ELSE VoteResult("VoteAdded", power, NoQC)]

QCs == {QcA1, QcA2, QcF, QcA1Bad}

\* ------------------------------------------------------------------ state
VARIABLES
    inner,           \* BlockStore.inner: the BlockTree behind the RwLock
    storage,         \* BlockStore.storage: persisted blocks and QCs
    state_computer,  \* BlockStore.state_computer: what commit was handed
    saved_ok,        \* history: what a save_tree call has returned Ok for
    th,              \* per thread: the call in progress and its locals
    panicked,        \* the process has terminated (unrecoverable!, assert)
    ncalls           \* calls started so far

vars == <<inner, storage, state_computer, saved_ok, th, panicked, ncalls>>

\* ---------------------------------------------------------------- BlockTree
block_exists(tree, id) == id \in DOMAIN tree.id_to_block

\* BlockTree::new
BlockTree_new(root, root_output, root_qc, root_li, highest_timeout_cert, max_pruned_blocks_in_mem) ==
    [id_to_block |-> [x \in {root} |-> root_output],
     order |-> <<root>>,
     id_to_quorum_cert |-> [x \in {} |-> NoQC],
     root_id |-> root,
     highest_quorum_cert |-> root_qc,
     highest_ledger_info |-> root_li,
     highest_timeout_cert |-> highest_timeout_cert,
     max_pruned_blocks_in_mem |-> max_pruned_blocks_in_mem,
     pruned_block_ids |-> <<>>,
     pending_votes |-> NoPendingVotes]

\* BlockTree::insert_block: [ok, tree]
insert_block(tree, b, output) ==
    IF block_exists(tree, b) THEN [ok |-> TRUE, tree |-> tree]
    ELSE IF ~block_exists(tree, Parent[b]) THEN [ok |-> FALSE, tree |-> tree]
    ELSE [ok |-> TRUE,
          tree |-> [tree EXCEPT
              !.id_to_block = [x \in DOMAIN tree.id_to_block \cup {b} |->
                                  IF x = b THEN output ELSE tree.id_to_block[x]],
              !.order = Append(tree.order, b)]]

\* BlockTree::insert_quorum_cert: [ok, tree]
insert_quorum_cert(tree, qc) ==
    LET id == qc.certified.id IN
    IF ~block_exists(tree, id) THEN [ok |-> FALSE, tree |-> tree]
    ELSE IF block_info(id, tree.id_to_block[id]) # qc.certified
         THEN [ok |-> FALSE, tree |-> tree]
    ELSE [ok |-> TRUE,
          tree |-> [tree EXCEPT
              !.id_to_quorum_cert =
                  [x \in DOMAIN tree.id_to_quorum_cert \cup {id} |->
                      IF x = id THEN qc ELSE tree.id_to_quorum_cert[x]],
              !.highest_quorum_cert =
                  IF qc.certified.round > tree.highest_quorum_cert.certified.round
                  THEN qc ELSE @,
              !.highest_ledger_info =
                  IF qc.commit.round > tree.highest_ledger_info.commit.round
                  THEN qc ELSE @]]

\* BlockTree::replace_timeout_cert
replace_timeout_cert(tree, tc) ==
    IF tc.round <= tree.highest_timeout_cert.round THEN tree
    ELSE [tree EXCEPT !.highest_timeout_cert = tc]

children(tree, b) == SelectSeq(tree.order, LAMBDA c : Parent[c] = b)

RECURSIVE bfs(_, _, _, _)
bfs(tree, queue, next_root_id, acc) ==
    IF queue = <<>> THEN acc
    ELSE LET b == Head(queue)
             kids == SelectSeq(children(tree, b), LAMBDA c : c # next_root_id)
         IN bfs(tree, Tail(queue) \o kids, next_root_id, Append(acc, b))

\* BlockTree::find_blocks_to_prune
find_blocks_to_prune(tree, next_root_id) ==
    IF next_root_id = tree.root_id \/ ~block_exists(tree, tree.root_id) THEN <<>>
    ELSE bfs(tree, <<tree.root_id>>, next_root_id, <<>>)

\* BlockTree::process_pruned_blocks
process_pruned_blocks(tree, next_root_id, ids) ==
    LET keep == DOMAIN tree.id_to_block \ Range(ids)
        keep_qc == {x \in DOMAIN tree.id_to_quorum_cert :
                      tree.id_to_quorum_cert[x].certified.round >= Round[next_root_id]}
    IN [tree EXCEPT
          !.id_to_block = Restrict(@, keep),
          !.order = Without(@, Range(ids)),
          !.pruned_block_ids = LastN(@ \o ids, tree.max_pruned_blocks_in_mem),
          !.root_id = next_root_id,
          !.id_to_quorum_cert = Restrict(@, keep_qc)]

RECURSIVE walk_up(_, _, _)
walk_up(tree, cur, acc) ==
    IF cur = tree.root_id THEN [some |-> TRUE, path |-> acc]
    ELSE IF ~block_exists(tree, cur) THEN [some |-> FALSE, path |-> <<>>]
    ELSE walk_up(tree, Parent[cur], <<cur>> \o acc)

\* BlockTree::path_from_root: [some, path]
path_from_root(tree, id) == walk_up(tree, id, <<>>)

\* --------------------------------------------------------------- storage
\* PersistentStorage::save_tree
save_tree(st, new_blocks, new_qcs) ==
    [st EXCEPT !.blocks = @ \cup new_blocks, !.quorum_certs = @ \cup new_qcs]

\* PersistentStorage::save_highest_timeout_cert
save_highest_timeout_cert(st, tc) == [st EXCEPT !.highest_timeout_cert = tc]

\* PersistentStorage::prune_tree: deletes the blocks and the certificates
\* stored under the given ids.
storage_prune_tree(st, ids) ==
    [st EXCEPT !.blocks = @ \ ids,
               !.quorum_certs = {q \in @ : q.certified.id \notin ids}]

\* ------------------------------------------------------- build_block_tree
\* The loop over the recovered blocks: [ok, tree]; ok is FALSE where the
\* code panics (expect, assert_eq).
RECURSIVE build_blocks(_, _, _)
build_blocks(tree, blocks, quorum_certs) ==
    IF blocks = <<>> THEN [ok |-> TRUE, tree |-> tree]
    ELSE LET block == Head(blocks) IN
         IF block = G \/ ~block_exists(tree, Parent[block])
         THEN [ok |-> FALSE, tree |-> tree]
         ELSE LET output == compute(block, tree.id_to_block[Parent[block]].trees)
                  certs == {q \in quorum_certs : q.certified.id = block}
                  r == insert_block(tree, block, output)
              IN IF \E q \in certs : q.certified.state_id # output.trees
                 THEN [ok |-> FALSE, tree |-> tree]
                 ELSE build_blocks(r.tree, Tail(blocks), quorum_certs)

RECURSIVE build_qcs(_, _)
build_qcs(tree, quorum_certs) ==
    IF quorum_certs = {} THEN [ok |-> TRUE, tree |-> tree]
    ELSE LET qc == CHOOSE q \in quorum_certs : TRUE
             r == insert_quorum_cert(tree, qc)
         IN IF ~r.ok THEN [ok |-> FALSE, tree |-> tree]
            ELSE build_qcs(r.tree, quorum_certs \ {qc})

\* Mutant: the root certificate is not compared with the committed trees.
build_block_tree_root_unchecked(root, root_qc, root_li, blocks, quorum_certs, highest_timeout_cert, committed_trees, max_pruned_blocks_in_mem) ==
    LET root_output == ProcessedVMOutput(committed_trees,
                                         root_qc.certified.validators)
        tree == BlockTree_new(root, root_output, root_qc, root_li,
                              highest_timeout_cert, max_pruned_blocks_in_mem)
        withBlocks == build_blocks(tree, blocks, quorum_certs)
    IN IF ~withBlocks.ok THEN [ok |-> FALSE, tree |-> <<>>]
       ELSE build_qcs(withBlocks.tree, quorum_certs)

\* BlockStore::build_block_tree: [ok, tree]
build_block_tree(root, root_qc, root_li, blocks, quorum_certs, highest_timeout_cert, committed_trees, max_pruned_blocks_in_mem) ==
    IF root_qc.certified.version # version(committed_trees)
       \/ root_qc.certified.state_id # committed_trees
    THEN [ok |-> FALSE, tree |-> <<>>]
    ELSE LET root_output == ProcessedVMOutput(committed_trees,
                                              root_qc.certified.validators)
             tree == BlockTree_new(root, root_output, root_qc, root_li,
                                   highest_timeout_cert, max_pruned_blocks_in_mem)
             withBlocks == build_blocks(tree, blocks, quorum_certs)
         IN IF ~withBlocks.ok THEN [ok |-> FALSE, tree |-> <<>>]
            ELSE build_qcs(withBlocks.tree, quorum_certs)

\* PersistentStorage::start: the RecoveryData of the storage. The root is
\* the block the ledger was last committed to, with the stored certificate
\* for it and the stored certificate whose ledger info commits it; the
\* orphans are the stored blocks above the root, by round, and their
\* certificates. ok is FALSE when no root can be found.
start(st, committed_trees) ==
    LET root == IF committed_trees = <<>> THEN G
                ELSE committed_trees[Len(committed_trees)]
        root_qcs == {q \in st.quorum_certs : q.certified.id = root}
        root_lis == {q \in st.quorum_certs : q.commit.id = root}
        orphans == {b \in st.blocks : DescendsFrom(b, root)}
    IN IF root \notin st.blocks \/ root_qcs = {} \/ root_lis = {}
       THEN [ok |-> FALSE]
       ELSE [ok |-> TRUE, root |-> root,
             root_qc |-> CHOOSE q \in root_qcs : TRUE,
             root_li |-> CHOOSE q \in root_lis : TRUE,
             blocks |-> SortByRound(orphans),
             quorum_certs |-> {q \in st.quorum_certs : q.certified.id \in orphans},
             highest_timeout_cert |-> st.highest_timeout_cert]

\* ------------------------------------------------------------------- Init
\* RecoveryData of earlier runs: the genesis root with the blocks and the
\* certificates that had been persisted.
RecoveryData ==
    { [blocks |-> <<>>, quorum_certs |-> {}],
      [blocks |-> <<F>>, quorum_certs |-> {}],
      [blocks |-> <<A1, F>>, quorum_certs |-> {QcF}],
      [blocks |-> <<A1, A2>>, quorum_certs |-> {QcA1}] }

\* What the sync manager hands to rebuild: a root with its certificates, the
\* blocks above it and their certificates.
RebuildData ==
    { [root |-> G, root_qc |-> QcG, root_li |-> QcG,
       blocks |-> <<A1, A2>>, quorum_certs |-> {QcA1, QcA2}],
      [root |-> A1, root_qc |-> QcA1, root_li |-> QcA2,
       blocks |-> <<A2>>, quorum_certs |-> {}] }

\* Inputs of rebuild that do not fit together or are out of order: a block
\* without its parent, a certificate for another executed state, a
\* certificate for a block that is not there, a root the ledger has not
\* reached, and blocks listed child first.
BadRebuildData ==
    { [root |-> G, root_qc |-> QcG, root_li |-> QcG,
       blocks |-> <<A2>>, quorum_certs |-> {}],
      [root |-> G, root_qc |-> QcG, root_li |-> QcG,
       blocks |-> <<A1>>, quorum_certs |-> {QcA1Bad}],
      [root |-> G, root_qc |-> QcG, root_li |-> QcG,
       blocks |-> <<A1>>, quorum_certs |-> {QcA2}],
      [root |-> A2, root_qc |-> QcA2, root_li |-> QcA2,
       blocks |-> <<>>, quorum_certs |-> {}],
      [root |-> G, root_qc |-> QcG, root_li |-> QcG,
       blocks |-> <<A2, A1>>, quorum_certs |-> {QcA1, QcA2}] }

NoRebuild == [root |-> NoId]

\* RecoveryData of a run that stopped with a reconfiguration pending: the
\* genesis root alone, or with the reconfiguration block and its empty child.
ReconfigRecoveryData ==
    { [blocks |-> <<>>, quorum_certs |-> {}],
      [blocks |-> <<R, E>>, quorum_certs |-> {}] }

IdleThread ==
    [pc |-> "idle", op |-> "none", at |-> "none", blk |-> NoId, qc |-> NoQC,
     tc |-> NoTC, vote |-> NoVote, verifier |-> NoVerifier,
     vote_res |-> NoVoteResult,
     parent_out |-> NoOutput, executed |-> NoOutput,
     root_seen |-> NoId, path |-> <<>>, path_trees |-> <<NoId>>,
     ids |-> <<>>, res |-> "none", ret |-> NoOutput,
     rebuild |-> NoRebuild, prev_htc |-> NoTC, max_pruned |-> 0,
     tree |-> <<>>, li_round |-> 0]

\* BlockStore::new
Init ==
    \E d \in RecoveryData :
        /\ inner = build_block_tree(G, QcG, QcG, d.blocks, d.quorum_certs,
                                    NoTC, <<>>, MaxPrunedBlocksInMem).tree
        /\ storage = [blocks |-> Range(d.blocks) \cup {G},
                      quorum_certs |-> d.quorum_certs \cup {QcG},
                      highest_timeout_cert |-> NoTC]
        /\ state_computer = [committed_trees |-> <<>>, log |-> <<>>,
                             commit_failed |-> FALSE]
        /\ saved_ok = [blocks |-> {}, quorum_certs |-> {}, timeout_certs |-> {}]
        /\ th = [t \in Threads |-> IdleThread]
        /\ panicked = FALSE
        /\ ncalls = 0

\* BlockStore::new on the recovery data of a pending reconfiguration
InitReconfig ==
    \E d \in ReconfigRecoveryData :
        /\ inner = build_block_tree(G, QcG, QcG, d.blocks, d.quorum_certs,
                                    NoTC, <<>>, MaxPrunedBlocksInMem).tree
        /\ storage = [blocks |-> Range(d.blocks) \cup {G},
                      quorum_certs |-> d.quorum_certs \cup {QcG},
                      highest_timeout_cert |-> NoTC]
        /\ state_computer = [committed_trees |-> <<>>, log |-> <<>>,
                             commit_failed |-> FALSE]
        /\ saved_ok = [blocks |-> {}, quorum_certs |-> {}, timeout_certs |-> {}]
        /\ th = [t \in Threads |-> IdleThread]
        /\ panicked = FALSE
        /\ ncalls = 0

\* ------------------------------------------------------------ thread steps
CanCall(t) == th[t].pc \in {"idle", "done"} /\ ~panicked /\ ncalls < MaxCalls

At(t, pc) == th[t].pc = pc /\ ~panicked

Goto(t, r) == th' = [th EXCEPT ![t] = r]

\* A call that has returned keeps its arguments, its result and the step it
\* returned from ("idle": the first step of the call); its other locals are
\* dropped.
Done(r, res) ==
    [IdleThread EXCEPT !.pc = "done", !.res = res, !.at = r.pc,
                       !.op = r.op, !.blk = r.blk, !.tc = r.tc,
                       !.vote = r.vote, !.verifier = r.verifier,
                       !.vote_res = r.vote_res,
                       !.qc = r.qc, !.rebuild = r.rebuild, !.ret = r.ret,
                       !.root_seen = r.root_seen, !.path = r.path]

\* ---------------------------------------------- execute_and_insert_block
\* Mutant: the lookup of an existing block is skipped.
execute_and_insert_block_no_lookup(t, block) ==
    /\ CanCall(t)
    /\ ncalls' = ncalls + 1
    /\ Goto(t, [IdleThread EXCEPT !.op = "execute_and_insert_block", !.blk = block,
                                  !.pc = "verify_root"])
    /\ UNCHANGED <<inner, storage, state_computer, saved_ok, panicked>>

\* line 245: the call starts with get_block(block.id()) under the read lock.
execute_and_insert_block_get(t, block) ==
    /\ CanCall(t)
    /\ ncalls' = ncalls + 1
    /\ LET r == [IdleThread EXCEPT !.op = "execute_and_insert_block", !.blk = block] IN
       IF block_exists(inner, block)
       THEN Goto(t, Done([r EXCEPT !.ret = inner.id_to_block[block]], "ok"))
       ELSE Goto(t, [r EXCEPT !.pc = "verify_root"])
    /\ UNCHANGED <<inner, storage, state_computer, saved_ok, panicked>>

\* lines 392-395: root().round() < block.round()
verify_and_get_parent_root(t) ==
    /\ At(t, "verify_root")
    /\ IF Round[inner.root_id] < Round[th[t].blk]
       THEN Goto(t, [th[t] EXCEPT !.pc = "verify_parent"])
       ELSE Goto(t, Done(th[t], "err"))
    /\ UNCHANGED <<inner, storage, state_computer, saved_ok, panicked, ncalls>>

\* Mutant: the timestamps of the block and its parent are not compared.
verify_and_get_parent_parent_no_timestamp(t) ==
    /\ At(t, "verify_parent")
    /\ LET block == th[t].blk
           parent == Parent[block] IN
       IF /\ block_exists(inner, parent)
          /\ Round[parent] < Round[block]
       THEN Goto(t, [th[t] EXCEPT !.pc = "execute",
                                  !.parent_out = inner.id_to_block[parent]])
       ELSE Goto(t, Done(th[t], "err"))
    /\ UNCHANGED <<inner, storage, state_computer, saved_ok, panicked, ncalls>>

\* lines 397-406: the parent is fetched and compared with the block.
verify_and_get_parent_parent(t) ==
    /\ At(t, "verify_parent")
    /\ LET block == th[t].blk
           parent == Parent[block] IN
       IF /\ block_exists(inner, parent)
          /\ Round[parent] < Round[block]
          /\ Timestamp[block] > Timestamp[parent]
       THEN Goto(t, [th[t] EXCEPT !.pc = "execute",
                                  !.parent_out = inner.id_to_block[parent]])
       ELSE Goto(t, Done(th[t], "err"))
    /\ UNCHANGED <<inner, storage, state_computer, saved_ok, panicked, ncalls>>

\* Mutant: an error of state_computer.compute is replaced by an empty output.
execute_block_compute_error_ignored(t) ==
    /\ At(t, "execute")
    /\ \E ok \in BOOLEAN :
         Goto(t, [th[t] EXCEPT !.pc = "save",
                    !.executed = IF ok THEN compute(th[t].blk, th[t].parent_out.trees)
                                 ELSE NoOutput])
    /\ UNCHANGED <<inner, storage, state_computer, saved_ok, panicked, ncalls>>

\* Mutant: the reconfiguration rule is applied under the root too.
execute_block_compute_root_unchecked(t) ==
    /\ At(t, "execute")
    /\ LET block == th[t].blk
           parent_out == th[t].parent_out IN
       IF parent_out.validators
       THEN IF HasPayload[block]
            THEN Goto(t, Done(th[t], "err"))
            ELSE Goto(t, [th[t] EXCEPT !.pc = "save",
                     !.executed = ProcessedVMOutput(parent_out.trees,
                                                    parent_out.validators)])
       ELSE \E ok \in BOOLEAN :
              IF ok
              THEN Goto(t, [th[t] EXCEPT !.pc = "save",
                                !.executed = compute(block, parent_out.trees)])
              ELSE Goto(t, Done(th[t], "err"))
    /\ UNCHANGED <<inner, storage, state_computer, saved_ok, panicked, ncalls>>

\* Mutant: the payload of a block in the reconfiguration suffix is not looked at.
execute_block_compute_payload_unchecked(t) ==
    /\ At(t, "execute")
    /\ LET block == th[t].blk
           parent_out == th[t].parent_out IN
       IF inner.root_id # Parent[block] /\ parent_out.validators
       THEN Goto(t, [th[t] EXCEPT !.pc = "save",
                     !.executed = ProcessedVMOutput(parent_out.trees,
                                                    parent_out.validators)])
       ELSE \E ok \in BOOLEAN :
              IF ok
              THEN Goto(t, [th[t] EXCEPT !.pc = "save",
                                !.executed = compute(block, parent_out.trees)])
              ELSE Goto(t, Done(th[t], "err"))
    /\ UNCHANGED <<inner, storage, state_computer, saved_ok, panicked, ncalls>>

\* lines 269-290: the reconfiguration rule, or state_computer.compute.
execute_block_compute(t) ==
    /\ At(t, "execute")
    /\ LET block == th[t].blk
           parent_out == th[t].parent_out IN
       IF inner.root_id # Parent[block] /\ parent_out.validators
       THEN IF HasPayload[block]
            THEN Goto(t, Done(th[t], "err"))
            ELSE Goto(t, [th[t] EXCEPT !.pc = "save",
                     !.executed = ProcessedVMOutput(parent_out.trees,
                                                    parent_out.validators)])
       ELSE \E ok \in BOOLEAN :
              IF ok
              THEN Goto(t, [th[t] EXCEPT !.pc = "save",
                                !.executed = compute(block, parent_out.trees)])
              ELSE Goto(t, Done(th[t], "err"))
    /\ UNCHANGED <<inner, storage, state_computer, saved_ok, panicked, ncalls>>

\* Mutant: the result of save_tree is ignored.
execute_and_insert_block_save_unchecked(t) ==
    /\ At(t, "save")
    /\ \E ok \in BOOLEAN :
         IF ok
         THEN /\ storage' = save_tree(storage, {th[t].blk}, {})
              /\ saved_ok' = [saved_ok EXCEPT !.blocks = @ \cup {th[t].blk}]
         ELSE UNCHANGED <<storage, saved_ok>>
    /\ Goto(t, [th[t] EXCEPT !.pc = "insert"])
    /\ UNCHANGED <<inner, state_computer, panicked, ncalls>>

\* Mutant: the writer lock is taken before save_tree and the block inserted
\* under it.
execute_and_insert_block_save_under_write_lock(t) ==
    /\ At(t, "save")
    /\ \E ok \in BOOLEAN :
         IF ok
         THEN /\ storage' = save_tree(storage, {th[t].blk}, {})
              /\ saved_ok' = [saved_ok EXCEPT !.blocks = @ \cup {th[t].blk}]
              /\ inner' = insert_block(inner, th[t].blk, th[t].executed).tree
              /\ Goto(t, Done([th[t] EXCEPT !.ret = th[t].executed], "ok"))
         ELSE /\ Goto(t, Done(th[t], "err"))
              /\ UNCHANGED <<inner, storage, saved_ok>>
    /\ UNCHANGED <<state_computer, panicked, ncalls>>

\* lines 249-251: storage.save_tree(vec![block], vec![])?
execute_and_insert_block_save(t) ==
    /\ At(t, "save")
    /\ \E ok \in BOOLEAN :
         IF ok
         THEN /\ storage' = save_tree(storage, {th[t].blk}, {})
              /\ saved_ok' = [saved_ok EXCEPT !.blocks = @ \cup {th[t].blk}]
              /\ Goto(t, [th[t] EXCEPT !.pc = "insert"])
         ELSE /\ Goto(t, Done(th[t], "err"))
              /\ UNCHANGED <<storage, saved_ok>>
    /\ UNCHANGED <<inner, state_computer, panicked, ncalls>>

\* line 252: inner.write().insert_block(executed_block)
execute_and_insert_block_insert(t) ==
    /\ At(t, "insert")
    /\ LET r == insert_block(inner, th[t].blk, th[t].executed) IN
       /\ inner' = r.tree
       /\ IF r.ok
          THEN Goto(t, Done([th[t] EXCEPT !.ret = r.tree.id_to_block[th[t].blk]], "ok"))
          ELSE Goto(t, Done(th[t], "err"))
    /\ UNCHANGED <<storage, state_computer, saved_ok, panicked, ncalls>>

\* --------------------------------------------- insert_single_quorum_cert
\* Mutant: the block is fetched but its block_info is not compared.
insert_single_quorum_cert_check_presence_only(t, qc) ==
    /\ CanCall(t)
    /\ ncalls' = ncalls + 1
    /\ LET r == [IdleThread EXCEPT !.op = "insert_single_quorum_cert", !.qc = qc] IN
       IF block_exists(inner, qc.certified.id)
       THEN Goto(t, [r EXCEPT !.pc = "qc_save"])
       ELSE Goto(t, Done(r, "err"))
    /\ UNCHANGED <<inner, storage, state_computer, saved_ok, panicked>>

\* lines 300-311: the certified block is fetched and its info compared.
insert_single_quorum_cert_check(t, qc) ==
    /\ CanCall(t)
    /\ ncalls' = ncalls + 1
    /\ LET r == [IdleThread EXCEPT !.op = "insert_single_quorum_cert", !.qc = qc]
           id == qc.certified.id IN
       IF block_exists(inner, id) /\ block_info(id, inner.id_to_block[id]) = qc.certified
       THEN Goto(t, [r EXCEPT !.pc = "qc_save"])
       ELSE Goto(t, Done(r, "err"))
    /\ UNCHANGED <<inner, storage, state_computer, saved_ok, panicked>>

\* Mutant: the result of save_tree is ignored.
insert_single_quorum_cert_save_unchecked(t) ==
    /\ At(t, "qc_save")
    /\ \E ok \in BOOLEAN :
         IF ok
         THEN /\ storage' = save_tree(storage, {}, {th[t].qc})
              /\ saved_ok' = [saved_ok EXCEPT !.quorum_certs = @ \cup {th[t].qc}]
         ELSE UNCHANGED <<storage, saved_ok>>
    /\ Goto(t, [th[t] EXCEPT !.pc = "qc_insert"])
    /\ UNCHANGED <<inner, state_computer, panicked, ncalls>>

\* lines 313-315: storage.save_tree(vec![], vec![qc])?
insert_single_quorum_cert_save(t) ==
    /\ At(t, "qc_save")
    /\ \E ok \in BOOLEAN :
         IF ok
         THEN /\ storage' = save_tree(storage, {}, {th[t].qc})
              /\ saved_ok' = [saved_ok EXCEPT !.quorum_certs = @ \cup {th[t].qc}]
              /\ Goto(t, [th[t] EXCEPT !.pc = "qc_insert"])
         ELSE /\ Goto(t, Done(th[t], "err"))
              /\ UNCHANGED <<storage, saved_ok>>
    /\ UNCHANGED <<inner, state_computer, panicked, ncalls>>

\* Mutant: the QC is saved but not handed to the tree.
insert_single_quorum_cert_insert_dropped(t) ==
    /\ At(t, "qc_insert")
    /\ Goto(t, Done(th[t], "ok"))
    /\ UNCHANGED <<inner, storage, state_computer, saved_ok, panicked, ncalls>>

\* Mutant: the inserted QC always becomes the highest QC.
insert_single_quorum_cert_insert_sets_highest(t) ==
    /\ At(t, "qc_insert")
    /\ LET r == insert_quorum_cert(inner, th[t].qc) IN
       /\ inner' = IF r.ok THEN [r.tree EXCEPT !.highest_quorum_cert = th[t].qc]
                   ELSE r.tree
       /\ Goto(t, Done(th[t], IF r.ok THEN "ok" ELSE "err"))
    /\ UNCHANGED <<storage, state_computer, saved_ok, panicked, ncalls>>

\* line 316: inner.write().insert_quorum_cert(qc)
insert_single_quorum_cert_insert(t) ==
    /\ At(t, "qc_insert")
    /\ LET r == insert_quorum_cert(inner, th[t].qc) IN
       /\ inner' = r.tree
       /\ Goto(t, Done(th[t], IF r.ok THEN "ok" ELSE "err"))
    /\ UNCHANGED <<storage, state_computer, saved_ok, panicked, ncalls>>

\* -------------------------------------------- insert_timeout_certificate
\* lines 322-325: the round of the highest TC (0 for None) is read and compared.
insert_timeout_certificate_round(t, tc) ==
    /\ CanCall(t)
    /\ ncalls' = ncalls + 1
    /\ LET r == [IdleThread EXCEPT !.op = "insert_timeout_certificate", !.tc = tc] IN
       IF tc.round <= inner.highest_timeout_cert.round
       THEN Goto(t, Done(r, "ok"))
       ELSE Goto(t, [r EXCEPT !.pc = "tc_save"])
    /\ UNCHANGED <<inner, storage, state_computer, saved_ok, panicked>>

\* Mutant: the result of save_highest_timeout_cert is ignored.
insert_timeout_certificate_save_unchecked(t) ==
    /\ At(t, "tc_save")
    /\ \E ok \in BOOLEAN :
         IF ok
         THEN /\ storage' = save_highest_timeout_cert(storage, th[t].tc)
              /\ saved_ok' = [saved_ok EXCEPT !.timeout_certs = @ \cup {th[t].tc}]
         ELSE UNCHANGED <<storage, saved_ok>>
    /\ Goto(t, [th[t] EXCEPT !.pc = "tc_replace"])
    /\ UNCHANGED <<inner, state_computer, panicked, ncalls>>

\* lines 326-333: storage.save_highest_timeout_cert(tc)?
insert_timeout_certificate_save(t) ==
    /\ At(t, "tc_save")
    /\ \E ok \in BOOLEAN :
         IF ok
         THEN /\ storage' = save_highest_timeout_cert(storage, th[t].tc)
              /\ saved_ok' = [saved_ok EXCEPT !.timeout_certs = @ \cup {th[t].tc}]
              /\ Goto(t, [th[t] EXCEPT !.pc = "tc_replace"])
         ELSE /\ Goto(t, Done(th[t], "err"))
              /\ UNCHANGED <<storage, saved_ok>>
    /\ UNCHANGED <<inner, state_computer, panicked, ncalls>>

\* lines 334-335: inner.write().replace_timeout_cert(tc); Ok(())
insert_timeout_certificate_replace(t) ==
    /\ At(t, "tc_replace")
    /\ inner' = replace_timeout_cert(inner, th[t].tc)
    /\ Goto(t, Done(th[t], "ok"))
    /\ UNCHANGED <<storage, state_computer, saved_ok, panicked, ncalls>>

\* ------------------------------------------------------------ insert_vote
\* The authors whose votes are pending.
PendingAuthors(tree) == DOMAIN tree.pending_votes.author_to_vote

\* Mutant: the tree is handed a verifier asking for one more vote.
insert_vote_quorum_plus_one(t, vote, verifier) ==
    /\ CanCall(t)
    /\ PendingAuthors(inner) \subseteq DOMAIN verifier.power
    /\ ncalls' = ncalls + 1
    /\ LET r == PendingVotes_insert_vote(inner.pending_votes, vote,
                                         [verifier EXCEPT !.quorum = @ + 1]) IN
       /\ inner' = [inner EXCEPT !.pending_votes = r.pending]
       /\ Goto(t, Done([IdleThread EXCEPT !.op = "insert_vote", !.vote = vote,
                           !.verifier = verifier, !.vote_res = r.res], "ok"))
    /\ UNCHANGED <<storage, state_computer, saved_ok, panicked>>

\* The pending votes without the record of what the authors in `authors`
\* voted last.
ForgetAuthors(pending, authors) ==
    [pending EXCEPT !.author_to_vote =
        [a \in DOMAIN pending.author_to_vote \ authors |-> pending.author_to_vote[a]]]

\* Mutant: an author's earlier vote for the same digest is not looked up.
insert_vote_same_digest_not_looked_up(t, vote, verifier) ==
    /\ CanCall(t)
    /\ PendingAuthors(inner) \subseteq DOMAIN verifier.power
    /\ ncalls' = ncalls + 1
    /\ LET seen == {a \in PendingAuthors(inner) :
                      inner.pending_votes.author_to_vote[a].digest = vote.digest}
           r == PendingVotes_insert_vote(ForgetAuthors(inner.pending_votes, seen),
                                         vote, verifier) IN
       /\ inner' = [inner EXCEPT !.pending_votes = r.pending]
       /\ Goto(t, Done([IdleThread EXCEPT !.op = "insert_vote", !.vote = vote,
                           !.verifier = verifier, !.vote_res = r.res], "ok"))
    /\ UNCHANGED <<storage, state_computer, saved_ok, panicked>>

\* Mutant: an author's earlier vote for another digest is not looked up.
insert_vote_other_digest_not_looked_up(t, vote, verifier) ==
    /\ CanCall(t)
    /\ PendingAuthors(inner) \subseteq DOMAIN verifier.power
    /\ ncalls' = ncalls + 1
    /\ LET seen == {a \in PendingAuthors(inner) :
                      inner.pending_votes.author_to_vote[a].digest # vote.digest}
           r == PendingVotes_insert_vote(ForgetAuthors(inner.pending_votes, seen),
                                         vote, verifier) IN
       /\ inner' = [inner EXCEPT !.pending_votes = r.pending]
       /\ Goto(t, Done([IdleThread EXCEPT !.op = "insert_vote", !.vote = vote,
                           !.verifier = verifier, !.vote_res = r.res], "ok"))
    /\ UNCHANGED <<storage, state_computer, saved_ok, panicked>>

\* Mutant: insert_vote_and_qc (lines 472-482), which hands a certificate it
\* has formed to the tree.
insert_vote_and_qc(t, vote, verifier) ==
    /\ CanCall(t)
    /\ PendingAuthors(inner) \subseteq DOMAIN verifier.power
    /\ ncalls' = ncalls + 1
    /\ LET r == PendingVotes_insert_vote(inner.pending_votes, vote, verifier)
           voted == [inner EXCEPT !.pending_votes = r.pending]
           q == insert_quorum_cert(voted, r.res.qc) IN
       /\ inner' = IF r.res.kind = "NewQuorumCertificate" /\ q.ok
                    THEN q.tree ELSE voted
       /\ Goto(t, Done([IdleThread EXCEPT !.op = "insert_vote", !.vote = vote,
                           !.verifier = verifier, !.vote_res = r.res], "ok"))
    /\ UNCHANGED <<storage, state_computer, saved_ok, panicked>>

\* lines 347-356: inner.write().insert_vote(vote, validator_verifier). The
\* verifier a caller passes knows the authors whose votes are pending.
insert_vote(t, vote, verifier) ==
    /\ CanCall(t)
    /\ PendingAuthors(inner) \subseteq DOMAIN verifier.power
    /\ ncalls' = ncalls + 1
    /\ LET r == PendingVotes_insert_vote(inner.pending_votes, vote, verifier) IN
       /\ inner' = [inner EXCEPT !.pending_votes = r.pending]
       /\ Goto(t, Done([IdleThread EXCEPT !.op = "insert_vote", !.vote = vote,
                           !.verifier = verifier, !.vote_res = r.res], "ok"))
    /\ UNCHANGED <<storage, state_computer, saved_ok, panicked>>

\* ----------------------------------------------------------------- commit
\* An error of commit: returned to the caller, or, inside rebuild (lines
\* 227-229), logged by rebuild, which then returns.
CommitErr(r) == Done(r, IF r.op = "rebuild" THEN "ok" ELSE "err")

\* lines 163-166: get_block(block_id_to_commit)
commit_get_block(t, id) ==
    /\ CanCall(t)
    /\ ncalls' = ncalls + 1
    /\ LET r == [IdleThread EXCEPT !.op = "commit", !.blk = id] IN
       IF block_exists(inner, id)
       THEN Goto(t, [r EXCEPT !.pc = "commit_round"])
       ELSE Goto(t, CommitErr(r))
    /\ UNCHANGED <<inner, storage, state_computer, saved_ok, panicked>>

\* Mutant: the round check admits the root's own round.
commit_check_round_ge(t) ==
    /\ At(t, "commit_round")
    /\ IF Round[th[t].blk] >= Round[inner.root_id]
       THEN Goto(t, [th[t] EXCEPT !.pc = "commit_path", !.root_seen = inner.root_id])
       ELSE Goto(t, CommitErr(th[t]))
    /\ UNCHANGED <<inner, storage, state_computer, saved_ok, panicked, ncalls>>

\* lines 169-172: ensure!(block_to_commit.round() > self.root().round())
commit_check_round(t) ==
    /\ At(t, "commit_round")
    /\ IF Round[th[t].blk] > Round[inner.root_id]
       THEN Goto(t, [th[t] EXCEPT !.pc = "commit_path", !.root_seen = inner.root_id])
       ELSE Goto(t, CommitErr(th[t]))
    /\ UNCHANGED <<inner, storage, state_computer, saved_ok, panicked, ncalls>>

\* Mutant: only the block to commit is handed on, not the path to it.
commit_target_only(t) ==
    /\ At(t, "commit_path")
    /\ Goto(t, [th[t] EXCEPT !.pc = "commit_sc", !.path = <<th[t].blk>>,
                  !.path_trees = IF block_exists(inner, th[t].blk)
                                 THEN inner.id_to_block[th[t].blk].trees
                                 ELSE <<NoId>>])
    /\ UNCHANGED <<inner, storage, state_computer, saved_ok, panicked, ncalls>>

\* lines 174-176: path_from_root(block_id_to_commit).unwrap_or_else(Vec::new)
commit_path_from_root(t) ==
    /\ At(t, "commit_path")
    /\ LET p == path_from_root(inner, th[t].blk)
           path == IF p.some THEN p.path ELSE <<>> IN
       Goto(t, [th[t] EXCEPT !.pc = "commit_sc", !.path = path,
                  !.path_trees = IF path = <<>> THEN <<NoId>>
                                 ELSE inner.id_to_block[path[Len(path)]].trees])
    /\ UNCHANGED <<inner, storage, state_computer, saved_ok, panicked, ncalls>>

\* StateComputer::commit succeeding: the blocks are finalized.
state_computer_commit(sc, path, path_trees) ==
    [sc EXCEPT !.log = Append(@, path),
               !.committed_trees = IF path = <<>> THEN @ ELSE path_trees]

\* unrecoverable!: the process terminates.
unrecoverable == panicked' = TRUE

\* Mutant: a failed state_computer.commit is returned to the caller as an error.
commit_state_computer_returns_err(t) ==
    /\ At(t, "commit_sc")
    /\ \E ok \in BOOLEAN :
         IF ok
         THEN /\ state_computer' =
                    state_computer_commit(state_computer, th[t].path, th[t].path_trees)
              /\ Goto(t, [th[t] EXCEPT !.pc = "prune_find"])
         ELSE /\ state_computer' = [state_computer EXCEPT !.commit_failed = TRUE]
              /\ Goto(t, CommitErr(th[t]))
    /\ UNCHANGED <<inner, storage, saved_ok, panicked, ncalls>>

\* lines 178-184: state_computer.commit(blocks_to_commit, finality_proof)
commit_state_computer(t) ==
    /\ At(t, "commit_sc")
    /\ \E ok \in BOOLEAN :
         IF ok
         THEN /\ state_computer' =
                    state_computer_commit(state_computer, th[t].path, th[t].path_trees)
              /\ Goto(t, [th[t] EXCEPT !.pc = "prune_find"])
              /\ UNCHANGED panicked
         ELSE /\ state_computer' = [state_computer EXCEPT !.commit_failed = TRUE]
              /\ unrecoverable
              /\ UNCHANGED th
    /\ UNCHANGED <<inner, storage, saved_ok, ncalls>>

\* Mutant: the blocks to prune are searched for the current root.
prune_tree_find_for_root(t) ==
    /\ At(t, "prune_find")
    /\ Goto(t, [th[t] EXCEPT !.pc = "prune_storage",
                             !.ids = find_blocks_to_prune(inner, inner.root_id)])
    /\ UNCHANGED <<inner, storage, state_computer, saved_ok, panicked, ncalls>>

\* lines 370-374: inner.read().find_blocks_to_prune(next_root_id)
prune_tree_find(t) ==
    /\ At(t, "prune_find")
    /\ Goto(t, [th[t] EXCEPT !.pc = "prune_storage",
                             !.ids = find_blocks_to_prune(inner, th[t].blk)])
    /\ UNCHANGED <<inner, storage, state_computer, saved_ok, panicked, ncalls>>

\* Mutant: a failure of storage.prune_tree ends the commit with an error.
prune_tree_storage_error_returned(t) ==
    /\ At(t, "prune_storage")
    /\ \E ok \in BOOLEAN :
         IF ok
         THEN /\ storage' = storage_prune_tree(storage, Range(th[t].ids))
              /\ Goto(t, [th[t] EXCEPT !.pc = "prune_process"])
         ELSE /\ UNCHANGED storage
              /\ Goto(t, CommitErr(th[t]))
    /\ UNCHANGED <<inner, state_computer, saved_ok, panicked, ncalls>>

\* lines 375-383: storage.prune_tree(id_to_remove); a failure is only logged.
prune_tree_storage(t) ==
    /\ At(t, "prune_storage")
    /\ \E ok \in BOOLEAN :
         storage' = IF ok THEN storage_prune_tree(storage, Range(th[t].ids))
                    ELSE storage
    /\ Goto(t, [th[t] EXCEPT !.pc = "prune_process"])
    /\ UNCHANGED <<inner, state_computer, saved_ok, panicked, ncalls>>

\* lines 384-388 and 193: inner.write().process_pruned_blocks(..); Ok(blocks_to_commit)
prune_tree_process(t) ==
    /\ At(t, "prune_process")
    /\ inner' = process_pruned_blocks(inner, th[t].blk, th[t].ids)
    /\ Goto(t, Done(th[t], "ok"))
    /\ UNCHANGED <<storage, state_computer, saved_ok, panicked, ncalls>>

\* ---------------------------------------------------------------- rebuild
\* Mutant: the new tree is given a window one larger than the old tree's.
rebuild_prev_htc_larger_window(t, data) ==
    /\ CanCall(t)
    /\ ncalls' = ncalls + 1
    /\ Goto(t, [IdleThread EXCEPT !.op = "rebuild", !.pc = "rebuild_build",
                   !.rebuild = data, !.prev_htc = inner.highest_timeout_cert,
                   !.max_pruned = inner.max_pruned_blocks_in_mem + 1])
    /\ UNCHANGED <<inner, storage, state_computer, saved_ok, panicked>>

\* lines 202-204: max_pruned_blocks_in_mem and the previous highest TC are read.
rebuild_prev_htc(t, data) ==
    /\ CanCall(t)
    /\ ncalls' = ncalls + 1
    /\ Goto(t, [IdleThread EXCEPT !.op = "rebuild", !.pc = "rebuild_build",
                   !.rebuild = data, !.prev_htc = inner.highest_timeout_cert,
                   !.max_pruned = inner.max_pruned_blocks_in_mem])
    /\ UNCHANGED <<inner, storage, state_computer, saved_ok, panicked>>

\* lines 205-213: build_block_tree(..).await; its asserts and expects panic.
rebuild_build_block_tree(t) ==
    /\ At(t, "rebuild_build")
    /\ LET d == th[t].rebuild
           r == build_block_tree(d.root, d.root_qc, d.root_li, d.blocks,
                                 d.quorum_certs, th[t].prev_htc,
                                 state_computer.committed_trees,
                                 th[t].max_pruned) IN
       \E compute_ok \in BOOLEAN :
         IF r.ok /\ (compute_ok \/ d.blocks = <<>>)
         THEN /\ Goto(t, [th[t] EXCEPT !.pc = "rebuild_get_all", !.tree = r.tree])
              /\ UNCHANGED panicked
         ELSE /\ panicked' = TRUE
              /\ UNCHANGED th
    /\ UNCHANGED <<inner, storage, state_computer, saved_ok, ncalls>>

\* BlockTree::get_all_block_id
get_all_block_id(tree) == tree.order

\* line 214: inner.read().get_all_block_id()
rebuild_get_all_block_id(t) ==
    /\ At(t, "rebuild_get_all")
    /\ Goto(t, [th[t] EXCEPT !.pc = "rebuild_prune", !.ids = get_all_block_id(inner)])
    /\ UNCHANGED <<inner, storage, state_computer, saved_ok, panicked, ncalls>>

\* lines 215-218: storage.prune_tree(to_remove); a failure is only logged.
rebuild_prune_storage(t) ==
    /\ At(t, "rebuild_prune")
    /\ \E ok \in BOOLEAN :
         storage' = IF ok THEN storage_prune_tree(storage, Range(th[t].ids))
                    ELSE storage
    /\ Goto(t, [th[t] EXCEPT !.pc = "rebuild_swap"])
    /\ UNCHANGED <<inner, state_computer, saved_ok, panicked, ncalls>>

\* line 219: *self.inner.write().unwrap() = tree
rebuild_swap(t) ==
    /\ At(t, "rebuild_swap")
    /\ inner' = th[t].tree
    /\ Goto(t, [th[t] EXCEPT !.pc = "rebuild_li_round", !.tree = <<>>])
    /\ UNCHANGED <<storage, state_computer, saved_ok, panicked, ncalls>>

\* line 225, left operand: highest_ledger_info().commit_info().round()
rebuild_li_round(t) ==
    /\ At(t, "rebuild_li_round")
    /\ Goto(t, [th[t] EXCEPT !.pc = "rebuild_root_round",
                             !.li_round = inner.highest_ledger_info.commit.round])
    /\ UNCHANGED <<inner, storage, state_computer, saved_ok, panicked, ncalls>>

\* Mutant: rebuild returns without the catch-up commit.
rebuild_root_round_no_commit(t) ==
    /\ At(t, "rebuild_root_round")
    /\ Goto(t, Done(th[t], "ok"))
    /\ UNCHANGED <<inner, storage, state_computer, saved_ok, panicked, ncalls>>

\* line 225, right operand and the comparison: > self.root().round()
rebuild_root_round(t) ==
    /\ At(t, "rebuild_root_round")
    /\ IF th[t].li_round > Round[inner.root_id]
       THEN Goto(t, [th[t] EXCEPT !.pc = "rebuild_proof"])
       ELSE Goto(t, Done(th[t], "ok"))
    /\ UNCHANGED <<inner, storage, state_computer, saved_ok, panicked, ncalls>>

\* line 226: the finality proof is the highest ledger info's.
rebuild_finality_proof(t) ==
    /\ At(t, "rebuild_proof")
    /\ Goto(t, [th[t] EXCEPT !.pc = "rebuild_commit",
                             !.blk = inner.highest_ledger_info.commit.id])
    /\ UNCHANGED <<inner, storage, state_computer, saved_ok, panicked, ncalls>>

\* line 227 entering commit, lines 163-166: get_block(block_id_to_commit)
rebuild_commit_get_block(t) ==
    /\ At(t, "rebuild_commit")
    /\ IF block_exists(inner, th[t].blk)
       THEN Goto(t, [th[t] EXCEPT !.pc = "commit_round"])
       ELSE Goto(t, CommitErr(th[t]))
    /\ UNCHANGED <<inner, storage, state_computer, saved_ok, panicked, ncalls>>

\* ---------------------------------------------------------------- restart
\* Mutant: the recovered blocks and certificates are left out of the tree.
restart_without_blocks ==
    /\ CanCall(1)
    /\ ncalls' = ncalls + 1
    /\ LET d == start(storage, state_computer.committed_trees)
           r == IF d.ok
                THEN build_block_tree(d.root, d.root_qc, d.root_li, <<>>, {},
                                      d.highest_timeout_cert,
                                      state_computer.committed_trees,
                                      inner.max_pruned_blocks_in_mem)
                ELSE [ok |-> FALSE] IN
       \E compute_ok \in BOOLEAN :
         IF r.ok /\ compute_ok
         THEN /\ inner' = r.tree
              /\ Goto(1, Done([IdleThread EXCEPT !.op = "restart"], "ok"))
              /\ UNCHANGED panicked
         ELSE /\ panicked' = TRUE
              /\ UNCHANGED <<inner, th>>
    /\ UNCHANGED <<storage, state_computer, saved_ok>>

\* The process stops between two calls and a new BlockStore is made from the
\* same storage and state computer: BlockStore::new (lines 62-86) on
\* storage.start(). A failure to find the root, an assert or expect of
\* build_block_tree, or a failing compute ends the new process.
restart ==
    /\ CanCall(1)
    /\ ncalls' = ncalls + 1
    /\ LET d == start(storage, state_computer.committed_trees)
           r == IF d.ok
                THEN build_block_tree(d.root, d.root_qc, d.root_li, d.blocks,
                                      d.quorum_certs, d.highest_timeout_cert,
                                      state_computer.committed_trees,
                                      inner.max_pruned_blocks_in_mem)
                ELSE [ok |-> FALSE] IN
       \E compute_ok \in BOOLEAN :
         IF r.ok /\ (compute_ok \/ d.blocks = <<>>)
         THEN /\ inner' = r.tree
              /\ Goto(1, Done([IdleThread EXCEPT !.op = "restart"], "ok"))
              /\ UNCHANGED panicked
         ELSE /\ panicked' = TRUE
              /\ UNCHANGED <<inner, th>>
    /\ UNCHANGED <<storage, state_computer, saved_ok>>

\* ------------------------------------------------------------------- Next
\* Block and certificate insertion, and commit.
StepCore(t) ==
    \/ \E b \in Ids : execute_and_insert_block_get(t, b)
    \/ verify_and_get_parent_root(t)
    \/ verify_and_get_parent_parent(t)
    \/ execute_block_compute(t)
    \/ execute_and_insert_block_save(t)
    \/ execute_and_insert_block_insert(t)
    \/ \E qc \in QCs : insert_single_quorum_cert_check(t, qc)
    \/ insert_single_quorum_cert_save(t)
    \/ insert_single_quorum_cert_insert(t)
    \/ \E id \in Ids : commit_get_block(t, id)
    \/ commit_check_round(t)
    \/ commit_path_from_root(t)
    \/ commit_state_computer(t)
    \/ prune_tree_find(t)
    \/ prune_tree_storage(t)
    \/ prune_tree_process(t)

StepRebuild(t) ==
    \/ \E d \in RebuildData : rebuild_prev_htc(t, d)
    \/ rebuild_build_block_tree(t)
    \/ rebuild_get_all_block_id(t)
    \/ rebuild_prune_storage(t)
    \/ rebuild_swap(t)
    \/ rebuild_li_round(t)
    \/ rebuild_root_round(t)
    \/ rebuild_finality_proof(t)
    \/ rebuild_commit_get_block(t)

Step(t) == StepCore(t) \/ StepRebuild(t)

Next == \E t \in Threads : Step(t)

Spec == Init /\ [][Next]_vars

\* The interleavings of execute_and_insert_block, insert_single_quorum_cert
\* and commit alone.
NextCore == \E t \in Threads : StepCore(t)

SpecCore == Init /\ [][NextCore]_vars

\* Calls made one at a time: a single thread, each call returning before the
\* next one starts.
NextSeq == Step(1)

SpecSeq == Init /\ [][NextSeq]_vars

\* The steps of commit after its first, which rebuild runs too.
StepCommitTail(t) ==
    \/ commit_check_round(t)
    \/ commit_path_from_root(t)
    \/ commit_state_computer(t)
    \/ prune_tree_find(t)
    \/ prune_tree_storage(t)
    \/ prune_tree_process(t)

StepTC(t) ==
    \/ \E tc \in TCs : insert_timeout_certificate_round(t, tc)
    \/ insert_timeout_certificate_save(t)
    \/ insert_timeout_certificate_replace(t)

\* The interleavings of insert_timeout_certificate and rebuild.
NextTC == \E t \in Threads : StepTC(t) \/ StepRebuild(t) \/ StepCommitTail(t)

SpecTC == Init /\ [][NextTC]_vars

\* Every operation, calls made one at a time.
NextSeqAll == Step(1) \/ StepTC(1)

SpecSeqAll == Init /\ [][NextSeqAll]_vars

\* The interleavings of insert_vote and insert_single_quorum_cert.
StepVotes(t) ==
    \/ \E vote \in Votes, verifier \in Verifiers : insert_vote(t, vote, verifier)
    \/ \E qc \in QCs : insert_single_quorum_cert_check(t, qc)
    \/ insert_single_quorum_cert_save(t)
    \/ insert_single_quorum_cert_insert(t)

NextVotes == \E t \in Threads : StepVotes(t)

SpecVotes == Init /\ [][NextVotes]_vars

\* The interleavings of insert_timeout_certificate calls alone.
NextTCOnly == \E t \in Threads : StepTC(t)

SpecTCOnly == Init /\ [][NextTCOnly]_vars

\* Insertions and commits made one at a time, and restarts between them.
NextRestart == StepCore(1) \/ restart

SpecRestart == Init /\ [][NextRestart]_vars

\* rebuild called one at a time on inputs of every kind.
NextBuild ==
    \/ StepRebuild(1)
    \/ \E d \in BadRebuildData : rebuild_prev_htc(1, d)
    \/ StepCommitTail(1)

SpecBuild == Init /\ [][NextBuild]_vars

\* Block insertion and commit around a reconfiguration.
StepReconfig(t) ==
    \/ \E b \in ReconfigIds : execute_and_insert_block_get(t, b)
    \/ verify_and_get_parent_root(t)
    \/ verify_and_get_parent_parent(t)
    \/ execute_block_compute(t)
    \/ execute_and_insert_block_save(t)
    \/ execute_and_insert_block_insert(t)
    \/ commit_get_block(t, R)
    \/ StepCommitTail(t)

NextReconfig == \E t \in Threads : StepReconfig(t)

SpecReconfig == InitReconfig /\ [][NextReconfig]_vars

Stored == DOMAIN inner.id_to_block

Acted(t) == th'[t] # th[t]

Returned(t, op, res) == th[t].pc = "done" /\ th[t].op = op /\ th[t].res = res

RECURSIVE Flatten(_)
Flatten(ss) == IF ss = <<>> THEN <<>> ELSE Head(ss) \o Flatten(Tail(ss))

\* The blocks strictly after `from` down to `to` along the parent links, in
\* parent-to-child order; <<>> when `to` does not descend from `from`.
RECURSIVE Chain(_, _, _)
Chain(from, to, acc) ==
    IF to = from THEN acc
    ELSE IF to \notin AllIds THEN <<>>
    ELSE Chain(from, Parent[to], <<to>> \o acc)

\* C1: a block that execute_and_insert_block puts into the tree, and a QC that
\* insert_single_quorum_cert puts into the tree, becomes visible only after a
\* save_tree call holding it has returned Ok.
C1_SaveBeforeVisible ==
    [][\A t \in Threads :
        /\ (th[t].pc = "insert" /\ Acted(t))
              => (DOMAIN inner'.id_to_block \ Stored) \subseteq saved_ok.blocks
        /\ (th[t].pc = "qc_insert" /\ Acted(t))
              => \A id \in DOMAIN inner'.id_to_quorum_cert :
                    (id \notin DOMAIN inner.id_to_quorum_cert
                       \/ inner'.id_to_quorum_cert[id] # inner.id_to_quorum_cert[id])
                    => inner'.id_to_quorum_cert[id] \in saved_ok.quorum_certs]_vars

\* C1 witness: a block and a certificate went in through the two operations.
C1_Witness ==
    /\ \E t \in Threads : /\ Returned(t, "execute_and_insert_block", "ok")
                          /\ th[t].blk \in Stored /\ th[t].blk \in saved_ok.blocks
    /\ \E t \in Threads : /\ Returned(t, "insert_single_quorum_cert", "ok")
                          /\ th[t].qc.certified.id \in DOMAIN inner.id_to_quorum_cert
                          /\ th[t].qc \in saved_ok.quorum_certs

\* C2: every block of the primary index other than the root has its parent
\* in the primary index.
C2_ParentPresent ==
    \A b \in Stored : b # inner.root_id => Parent[b] \in Stored

\* C3: every stored non-root block whose parent is stored has a round and a
\* timestamp strictly above its parent's, and a round strictly above the
\* root's.
C3_RoundsIncrease ==
    \A b \in Stored :
        (b # inner.root_id /\ Parent[b] \in Stored)
           => /\ Round[b] > Round[Parent[b]]
              /\ Timestamp[b] > Timestamp[Parent[b]]
              /\ Round[b] > Round[inner.root_id]

\* C4: every QC of the QC index certifies a block of the primary index whose
\* block_info() equals the QC's certified_block.
C4_QcConsistent ==
    \A id \in DOMAIN inner.id_to_quorum_cert :
        /\ id \in Stored
        /\ block_info(id, inner.id_to_block[id]) = inner.id_to_quorum_cert[id].certified

\* C5: the round of root() never decreases.
C5_RootRoundMonotone ==
    [][Round[inner'.root_id] >= Round[inner.root_id]]_vars

\* C6: the blocks handed to state_computer.commit, over all commit calls, are
\* in strictly increasing round.
C6_CommitsIncrease ==
    LET handed == Flatten(state_computer.log) IN
    \A i, j \in 1..Len(handed) : i < j => Round[handed[i]] < Round[handed[j]]

\* C7: a commit naming a stored block T above the root hands the state
\* computer exactly the blocks after the root down to T, returns that list,
\* and has made T the root when it returns.
C7_CommitPath ==
    \A t \in Threads :
        Returned(t, "commit", "ok")
           => /\ th[t].path = Chain(th[t].root_seen, th[t].blk, <<>>)
              /\ th[t].path # <<>>
              /\ state_computer.log[Len(state_computer.log)] = th[t].path
              /\ inner.root_id = th[t].blk
              /\ th[t].blk \in Stored

\* C7 witness: a commit of two blocks has returned.
C7_Witness ==
    \E t \in Threads : Returned(t, "commit", "ok") /\ Len(th[t].path) = 2

\* C8: commit returns an error, calling nothing and changing nothing, when the
\* block named by the proof is not stored or its round is not above the root's.
C8_CommitRejects ==
    [][\A t \in Threads :
        /\ (Acted(t) /\ th[t].pc \in {"idle", "done"} /\ th'[t].op = "commit"
              /\ th'[t].blk \notin Stored)
              => th'[t].pc = "done" /\ th'[t].res = "err"
        /\ (Acted(t) /\ th[t].pc = "commit_round"
              /\ Round[th[t].blk] <= Round[inner.root_id])
              => /\ th'[t].pc = "done"
                 /\ th[t].op = "commit" => th'[t].res = "err"
                 /\ UNCHANGED <<inner, storage, state_computer>>
        /\ (Acted(t) /\ th'[t].pc = "done" /\ th'[t].op = "commit"
              /\ th'[t].res = "err")
              => /\ UNCHANGED <<inner, storage, state_computer>>
                 /\ th[t].pc \in {"idle", "done", "commit_round"}]_vars

\* C8 witness: both rejections have happened.
C8_Witness ==
    /\ \E t \in Threads : Returned(t, "commit", "err") /\ th[t].blk \notin Stored
    /\ \E t \in Threads : /\ Returned(t, "commit", "err") /\ th[t].blk \in Stored
                          /\ Round[th[t].blk] <= Round[inner.root_id]

\* C9: when state_computer.commit returns an error the process terminates:
\* the commit does not return, the tree is not pruned, the root not advanced.
C9_CommitFailureIsFatal ==
    /\ [](state_computer.commit_failed => panicked)
    /\ [][panicked => UNCHANGED <<inner, th>>]_vars

\* C9 witness: the state computer failed a commit and the process stopped
\* with the committing thread still inside commit.
C9_Witness ==
    /\ state_computer.commit_failed /\ panicked
    /\ \E t \in Threads : th[t].pc = "commit_sc" /\ th[t].blk # inner.root_id

\* C10: execute_and_insert_block of a block that is already stored returns
\* the stored handle and calls neither compute nor save_tree; the tree and
\* the storage are unchanged.
C10_DuplicateInsert ==
    [][\A t \in Threads :
        (Acted(t) /\ th[t].pc \in {"idle", "done"}
           /\ th'[t].op = "execute_and_insert_block" /\ th'[t].blk \in Stored)
           => /\ th'[t].pc = "done" /\ th'[t].res = "ok"
              /\ th'[t].ret = inner.id_to_block[th'[t].blk]
              /\ UNCHANGED <<inner, storage, saved_ok, state_computer>>]_vars

\* C10 witness: a call naming a non-root block that was stored before it
\* has returned the stored handle, and no save_tree has ever held the block.
C10_Witness ==
    \E t \in Threads :
        /\ Returned(t, "execute_and_insert_block", "ok")
        /\ th[t].blk \in Stored /\ th[t].blk # inner.root_id
        /\ th[t].blk \notin saved_ok.blocks
        /\ th[t].ret = inner.id_to_block[th[t].blk]

\* The call of thread t starts in this step.
Starts(t, op) == Acted(t) /\ th[t].pc \in {"idle", "done"} /\ th'[t].op = op

\* The call of thread t returns an error in this step, the tree and the
\* storage staying as they are.
Rejects(t) ==
    /\ th'[t].pc = "done" /\ th'[t].res = "err"
    /\ UNCHANGED <<inner, storage, saved_ok>>

\* C11: two overlapping execute_and_insert_block calls for the same block
\* return the same handle, and save_tree is called for the block by one of
\* them only: the two calls never both hold a saved block they are about to
\* insert.
C11_OverlappingInsertsSaveOnce ==
    \A t, u \in Threads :
        (/\ t # u
         /\ th[t].op = "execute_and_insert_block"
         /\ th[u].op = "execute_and_insert_block"
         /\ th[t].blk = th[u].blk)
           => /\ ~(th[t].pc = "insert" /\ th[u].pc = "insert")
              /\ (th[t].pc = "done" /\ th[u].pc = "done"
                    /\ th[t].res = "ok" /\ th[u].res = "ok")
                    => th[t].ret = th[u].ret

\* C12: execute_and_insert_block of a block that is not stored returns an
\* error at once, computing nothing, saving nothing and leaving the tree as
\* it is, when the block's round is not above the root's, when its parent is
\* not stored, when its round is not above its parent's, or when its
\* timestamp is not above its parent's.
C12_InvalidBlockRejected ==
    [][\A t \in Threads :
        /\ (Acted(t) /\ th[t].pc = "verify_root"
              /\ Round[th[t].blk] <= Round[inner.root_id]) => Rejects(t)
        /\ (Acted(t) /\ th[t].pc = "verify_parent"
              /\ (\/ Parent[th[t].blk] \notin Stored
                  \/ Round[Parent[th[t].blk]] >= Round[th[t].blk]
                  \/ Timestamp[th[t].blk] <= Timestamp[Parent[th[t].blk]]))
              => Rejects(t)]_vars

\* C12 witness: one call was rejected for its round against the root, another
\* for its timestamp against its stored parent.
C12_Witness ==
    \E t, u \in Threads :
        /\ Returned(t, "execute_and_insert_block", "err") /\ th[t].at = "verify_root"
        /\ Returned(u, "execute_and_insert_block", "err") /\ th[u].at = "verify_parent"
        /\ th[u].blk = Y /\ Parent[Y] \in Stored /\ Y \notin Stored

\* C13: when state_computer.compute fails for a block (the call leaves the
\* execution step without an output), execute_and_insert_block returns an
\* error, save_tree is not called for the block and the tree is unchanged;
\* no call reaches save_tree or insert_block without an output.
C13_ComputeErrorSurfaced ==
    /\ [](\A t \in Threads :
            th[t].pc \in {"save", "insert"} => th[t].executed # NoOutput)
    /\ [][\A t \in Threads :
            (Acted(t) /\ th[t].pc = "execute" /\ th'[t].executed = NoOutput)
               => Rejects(t)]_vars

\* C13 witness: a call returned an error from the execution step; its block
\* is neither in the tree nor in the storage.
C13_Witness ==
    \E t \in Threads :
        /\ Returned(t, "execute_and_insert_block", "err") /\ th[t].at = "execute"
        /\ th[t].blk \notin Stored /\ th[t].blk \notin storage.blocks
        /\ Parent[th[t].blk] \in Stored

\* C14: when save_tree fails in execute_and_insert_block or in
\* insert_single_quorum_cert (no save_tree has returned Ok for the block or
\* the QC after the step), the call returns an error and the tree is
\* unchanged.
C14_SaveErrorAborts ==
    [][\A t \in Threads :
        /\ (Acted(t) /\ th[t].pc = "save" /\ th[t].blk \notin saved_ok'.blocks)
              => Rejects(t)
        /\ (Acted(t) /\ th[t].pc = "qc_save" /\ th[t].qc \notin saved_ok'.quorum_certs)
              => Rejects(t)]_vars

\* C14 witness: a block insertion and a QC insertion have both returned an
\* error from their save_tree step, and neither is in the tree.
C14_Witness ==
    \E t, u \in Threads :
        /\ Returned(t, "execute_and_insert_block", "err") /\ th[t].at = "save"
        /\ th[t].blk \notin Stored
        /\ Returned(u, "insert_single_quorum_cert", "err") /\ th[u].at = "qc_save"
        /\ th[u].qc.certified.id \notin DOMAIN inner.id_to_quorum_cert

C16_HighestQcDominates ==
    /\ [](\A id \in DOMAIN inner.id_to_quorum_cert :
            inner.highest_quorum_cert.certified.round
               >= inner.id_to_quorum_cert[id].certified.round)
    /\ [][/\ \A t \in Threads :
              (Acted(t) /\ th[t].pc = "qc_insert" /\ th'[t].res = "ok")
                 => inner'.highest_quorum_cert =
                       IF th[t].qc.certified.round
                             > inner.highest_quorum_cert.certified.round
                       THEN th[t].qc ELSE inner.highest_quorum_cert
          /\ (\A t \in Threads :
                 ~(Acted(t) /\ th[t].pc \in {"qc_insert", "rebuild_swap"}))
                 => inner'.highest_quorum_cert = inner.highest_quorum_cert]_vars

\* C16 witness: an inserted QC is the highest and the index holds another
\* QC of a lower round.
C16_Witness ==
    \E t \in Threads :
        /\ Returned(t, "insert_single_quorum_cert", "ok")
        /\ inner.highest_quorum_cert = th[t].qc
        /\ \E id \in DOMAIN inner.id_to_quorum_cert :
              inner.id_to_quorum_cert[id].certified.round < th[t].qc.certified.round

\* C17: inserting a QC that the QC index already holds leaves the QC index,
\* highest_quorum_cert() and highest_ledger_info() as they were.
C17_KnownQcIsNoOp ==
    [][\A t \in Threads :
        (/\ Acted(t) /\ th[t].pc = "qc_insert"
         /\ th[t].qc.certified.id \in DOMAIN inner.id_to_quorum_cert
         /\ inner.id_to_quorum_cert[th[t].qc.certified.id] = th[t].qc)
           => /\ inner'.id_to_quorum_cert = inner.id_to_quorum_cert
              /\ inner'.highest_quorum_cert = inner.highest_quorum_cert
              /\ inner'.highest_ledger_info = inner.highest_ledger_info]_vars

\* C17 witness: the same QC has been inserted by two calls, and a QC of a
\* higher round is the highest.
C17_Witness ==
    \E t, u \in Threads :
        /\ t # u /\ th[t].qc = th[u].qc
        /\ Returned(t, "insert_single_quorum_cert", "ok")
        /\ Returned(u, "insert_single_quorum_cert", "ok")
        /\ th[t].qc.certified.id \in DOMAIN inner.id_to_quorum_cert
        /\ inner.highest_quorum_cert.certified.round > th[t].qc.certified.round

\* The block and its ancestors.
RECURSIVE AncestorsOrSelf(_)
AncestorsOrSelf(b) == IF b \notin AllIds THEN {} ELSE {b} \cup AncestorsOrSelf(Parent[b])

\* C18: the prune of a commit to T leaves in the primary index exactly T and
\* its descendants (the old root, T's ancestors and the sibling branches are
\* gone), makes T the root, and the ids prune_tree returns are exactly the
\* ids removed.
C18_PruneKeepsSubtree ==
    [][\A t \in Threads :
        (Acted(t) /\ th[t].pc = "prune_process")
           => /\ DOMAIN inner'.id_to_block
                    = {b \in Stored : th[t].blk \in AncestorsOrSelf(b)}
              /\ Range(th[t].ids) = Stored \ DOMAIN inner'.id_to_block
              /\ inner.root_id \notin DOMAIN inner'.id_to_block
              /\ inner'.root_id = th[t].blk
              /\ th[t].blk \in DOMAIN inner'.id_to_block
              /\ th'[t].pc = "done" /\ th'[t].res = "ok"]_vars

\* C18 witness: a commit to A1 has returned; its descendant A2 is kept, the
\* old root G and the fork F, inserted earlier, are gone.
C18_Witness ==
    \E t \in Threads :
        /\ Returned(t, "commit", "ok") /\ th[t].blk = A1
        /\ Stored = {A1, A2} /\ inner.root_id = A1
        /\ F \in saved_ok.blocks

C20_StoragePruneErrorIgnored ==
    [][\A t \in Threads :
        /\ (Acted(t) /\ th[t].pc = "prune_storage")
              => /\ th'[t].pc = "prune_process" /\ th'[t].ids = th[t].ids
                 /\ inner' = inner
        /\ (Acted(t) /\ th[t].pc = "prune_process")
              => /\ inner'.root_id = th[t].blk
                 /\ Range(th[t].ids) \cap DOMAIN inner'.id_to_block = {}
                 /\ th'[t].pc = "done" /\ th'[t].res = "ok"
        /\ (Acted(t) /\ th[t].pc = "rebuild_prune")
              => th'[t].pc = "rebuild_swap" /\ th'[t].tree = th[t].tree
        /\ (Acted(t) /\ th[t].pc = "rebuild_swap")
              => inner' = th[t].tree]_vars

\* C20 witness: a commit pruned G from the tree and a rebuild swapped in a
\* tree rooted at A1, while the storage, whose prune_tree failed both times,
\* still holds G and the old tree's A2.
C20_Witness ==
    \E t, u \in Threads :
        /\ Returned(t, "commit", "ok") /\ G \notin Stored /\ G \in storage.blocks
        /\ Returned(u, "rebuild", "ok") /\ th[u].rebuild.root = A1
        /\ inner.root_id = A1
        /\ A2 \in storage.blocks /\ A2 \notin saved_ok.blocks

\* C21: insert_timeout_certificate of a TC whose round is not above the
\* highest TC's (0 when there is none) returns Ok and writes nothing;
\* otherwise it goes on to save_highest_timeout_cert, whose failure makes it
\* return an error with the in-memory TC unchanged; the in-memory TC is
\* replaced only by a call whose save has returned Ok (or by rebuild's swap).
C21_TimeoutCertWriteThrough ==
    [][/\ \A t \in Threads :
          /\ (Starts(t, "insert_timeout_certificate")
                /\ th'[t].tc.round <= inner.highest_timeout_cert.round)
                => /\ th'[t].pc = "done" /\ th'[t].res = "ok"
                   /\ UNCHANGED <<inner, storage, saved_ok>>
          /\ (Starts(t, "insert_timeout_certificate")
                /\ th'[t].tc.round > inner.highest_timeout_cert.round)
                => th'[t].pc = "tc_save" /\ UNCHANGED <<inner, storage, saved_ok>>
          /\ (Acted(t) /\ th[t].pc = "tc_save"
                /\ th[t].tc \notin saved_ok'.timeout_certs) => Rejects(t)
          /\ (Acted(t) /\ th[t].pc = "tc_replace"
                /\ th[t].tc.round > inner.highest_timeout_cert.round)
                => inner'.highest_timeout_cert = th[t].tc
      /\ (inner'.highest_timeout_cert # inner.highest_timeout_cert)
            => \E t \in Threads :
                 /\ Acted(t)
                 /\ \/ th[t].pc = "rebuild_swap"
                    \/ /\ th[t].pc = "tc_replace"
                       /\ th[t].tc \in saved_ok.timeout_certs
                       /\ inner'.highest_timeout_cert = th[t].tc]_vars

\* C21 witness: a saved TC is the highest; one call found its TC not newer
\* and returned Ok at once, another returned the error of its save.
C21_Witness ==
    \E t, u \in Threads :
        /\ Returned(t, "insert_timeout_certificate", "ok") /\ th[t].at = "idle"
        /\ Returned(u, "insert_timeout_certificate", "err") /\ th[u].at = "tc_save"
        /\ inner.highest_timeout_cert \in saved_ok.timeout_certs
        /\ storage.highest_timeout_cert = inner.highest_timeout_cert

\* C22: the round of highest_timeout_cert() never decreases, also when a TC
\* is inserted while rebuild is building the new tree.
C22_TimeoutCertRoundMonotone ==
    [][inner'.highest_timeout_cert.round >= inner.highest_timeout_cert.round]_vars

\* C23: when rebuild returns, the commit round of highest_ledger_info()
\* equals the round of root(): a rebuilt tree whose highest ledger info is
\* above the new root is committed up to it before rebuild returns.
C23_RebuildCatchesUp ==
    [][\A t \in Threads :
          (Acted(t) /\ th'[t].op = "rebuild" /\ th'[t].pc = "done")
            => /\ inner'.highest_ledger_info.commit.round = Round[inner'.root_id]
               /\ inner'.highest_ledger_info.commit.id = inner'.root_id]_vars

\* C23 witness: a rebuild from root G returned from the last step of its
\* commit, which moved the root to the block of the highest ledger info.
C23_Witness ==
    \E t \in Threads :
        /\ Returned(t, "rebuild", "ok") /\ th[t].at = "prune_process"
        /\ th[t].rebuild.root = G
        /\ inner.root_id = A1
        /\ inner.highest_ledger_info.commit.id = A1

\* C24: in every state the commit round of highest_ledger_info() is at
\* least the round of root(), also after a successful commit.
C24_LedgerInfoAtLeastRoot ==
    inner.highest_ledger_info.commit.round >= Round[inner.root_id]

\* C25: at the execution step of a block whose parent is not the root and
\* has a pending validator set, a block with payload is rejected and a block
\* without payload gets the output (the parent's executed trees, the
\* parent's validator set), which is not what state_computer.compute would
\* return and cannot fail; in every other case a block that goes on gets the
\* result of compute on the parent's trees.  The output is inserted as is.
C25_ReconfigurationSuffix ==
    [][\A t \in Threads :
          /\ (Acted(t) /\ th[t].pc = "execute")
                => LET block == th[t].blk
                       parent_out == th[t].parent_out IN
                   IF inner.root_id # Parent[block] /\ parent_out.validators
                   THEN IF HasPayload[block] THEN Rejects(t)
                        ELSE /\ th'[t].pc = "save"
                             /\ th'[t].executed.trees = parent_out.trees
                             /\ th'[t].executed.validators = parent_out.validators
                             /\ th'[t].executed # compute(block, parent_out.trees)
                   ELSE th'[t].pc = "save"
                          => th'[t].executed = compute(block, parent_out.trees)
          /\ (Acted(t) /\ th[t].pc = "insert" /\ th[t].blk \notin Stored)
                => inner'.id_to_block[th[t].blk] = th[t].executed]_vars

\* C25 witness: E (no payload) is stored with the trees and the validator
\* set of its parent R, and a call for P (payload, same parent) was rejected
\* at the execution step.
C25_Witness ==
    /\ {R, E} \subseteq Stored /\ E \in saved_ok.blocks
    /\ inner.id_to_block[R].validators
    /\ inner.id_to_block[E] = inner.id_to_block[R]
    /\ \E t \in Threads :
         /\ Returned(t, "execute_and_insert_block", "err")
         /\ th[t].blk = P /\ th[t].at = "execute"

\* C26: every stored descendant of a stored block whose output has a
\* pending validator set has an empty payload, the executed trees of its
\* parent and the same validator set.
C26_SuffixDescendantsEmpty ==
    \A b \in Stored : \A a \in AncestorsOrSelf(Parent[b]) \cap Stored :
        inner.id_to_block[a].validators
          => /\ ~HasPayload[b]
             /\ Parent[b] \in Stored
             /\ inner.id_to_block[b].trees = inner.id_to_block[Parent[b]].trees
             /\ inner.id_to_block[b].validators = inner.id_to_block[a].validators

\* The steps that are a call to the state computer or to the storage, and
\* the steps that are a statement holding inner.write().
ExternalCallPcs == {"execute", "save", "qc_save", "tc_save", "commit_sc",
                    "prune_storage", "rebuild_build", "rebuild_prune"}
WriteLockPcs == {"insert", "qc_insert", "tc_replace", "prune_process",
                 "rebuild_swap"}

\* C27: the writer lock is not held across a call to the state computer or
\* to the storage: a step that is such a call leaves the tree as it is, the
\* tree changes only in a step that takes the writer lock, and that step
\* touches neither the storage nor the state computer; a block insert runs
\* validate, execute, persist, insert in this order.
C27_NoWriteLockAcrossCalls ==
    [][\A t \in Threads :
          Acted(t) =>
            /\ th[t].pc \in ExternalCallPcs => inner' = inner
            /\ inner' # inner
                 => /\ th[t].pc \in WriteLockPcs
                    /\ UNCHANGED <<storage, state_computer, saved_ok>>
            /\ (storage' # storage \/ state_computer' # state_computer)
                 => th[t].pc \in ExternalCallPcs
            /\ (th[t].op = "execute_and_insert_block"
                  /\ th[t].pc \notin {"idle", "done"} /\ th'[t].pc # "done")
                 => <<th[t].pc, th'[t].pc>> \in
                      { <<"verify_root", "verify_parent">>,
                        <<"verify_parent", "execute">>,
                        <<"execute", "save">>, <<"save", "insert">> }]_vars

\* C27 witness: a block went through save_tree and then insert_block, a
\* timeout certificate was saved and replaced, and a commit went through
\* the state computer and the prune.
C27_Witness ==
    /\ \E b \in saved_ok.blocks : b \in Stored
    /\ inner.highest_timeout_cert \in saved_ok.timeout_certs
    /\ state_computer.log # <<>>
    /\ Returned(1, "commit", "ok") /\ th[1].at = "prune_process"

\* C28: a restart that yields a new store keeps every block that was
\* persisted and had not been pruned (it is in the tree at or under the
\* root, and in the storage): the block is in the new tree, with the output
\* it had, and so is every stored certificate of such a block.
C28_RestartRoundTrip ==
    [][(Starts(1, "restart") /\ ~panicked')
         => /\ \A b \in Stored \cap storage.blocks :
                 (b = inner.root_id \/ DescendsFrom(b, inner.root_id))
                   => /\ b \in DOMAIN inner'.id_to_block
                      /\ inner'.id_to_block[b] = inner.id_to_block[b]
            /\ \A b \in DOMAIN inner.id_to_quorum_cert :
                 (inner.id_to_quorum_cert[b] \in storage.quorum_certs
                    /\ DescendsFrom(b, inner.root_id))
                   => /\ b \in DOMAIN inner'.id_to_quorum_cert
                      /\ inner'.id_to_quorum_cert[b] = inner.id_to_quorum_cert[b]]_vars

\* C28 witness: A1 and its certificate were inserted in this run, each
\* through save_tree, and are in the store a restart has built.
C28_Witness ==
    /\ Returned(1, "restart", "ok")
    /\ A1 \in saved_ok.blocks /\ QcA1 \in saved_ok.quorum_certs
    /\ A1 \in Stored
    /\ A1 \in DOMAIN inner.id_to_quorum_cert

\* What build_block_tree has to find wrong with its input d, given the
\* trees the state computer has committed.
Inconsistent(d, committed_trees) ==
    \/ d.root_qc.certified.version # version(committed_trees)
    \/ d.root_qc.certified.state_id # committed_trees
    \/ \E i \in 1..Len(d.blocks) :
         Parent[d.blocks[i]] \notin {d.root} \cup {d.blocks[j] : j \in 1..(i - 1)}
    \/ \E q \in d.quorum_certs :
         /\ q.certified.id \in Range(d.blocks)
         /\ q.certified.state_id
              # committed_trees \o Chain(d.root, q.certified.id, <<>>)
    \/ \E q \in d.quorum_certs : q.certified.id \notin Range(d.blocks) \cup {d.root}

\* C29: build_block_tree ends the process and yields no tree when the root
\* certificate disagrees with the committed trees on version or state id,
\* when a block comes before its parent, when a certificate of a block
\* disagrees with the block's re-executed state, or when a certificate cannot
\* be inserted; on other inputs it ends the process only if re-execution
\* fails, and otherwise yields the tree.
C29_BuildAbortsOnInconsistency ==
    [][\A t \in Threads :
          (th[t].pc = "rebuild_build" /\ ~panicked
             /\ (Acted(t) \/ panicked'))
            => IF Inconsistent(th[t].rebuild, state_computer.committed_trees)
               THEN panicked' /\ UNCHANGED <<inner, th, storage>>
               ELSE IF panicked'
                    THEN th[t].rebuild.blocks # <<>> /\ UNCHANGED <<inner, th>>
                    ELSE /\ th'[t].pc = "rebuild_get_all"
                         /\ th'[t].tree.root_id = th[t].rebuild.root
                         /\ th'[t].tree.order
                              = <<th[t].rebuild.root>> \o th[t].rebuild.blocks]_vars

\* C29 witness: the process has ended in a rebuild whose certificate for A1
\* names another state than the re-execution of A1.
C29_Witness ==
    /\ panicked
    /\ th[1].pc = "rebuild_build"
    /\ th[1].rebuild.blocks = <<A1>>
    /\ th[1].rebuild.quorum_certs = {QcA1Bad}
    /\ th[1].tree = <<>>

\* C30: whatever the order of the orphan blocks in the input, the build
\* yields the tree it yields for the blocks in round order.
C30_BuildOrderIndependent ==
    \A t \in Threads :
        th[t].pc = "rebuild_build"
          => LET d == th[t].rebuild IN
             build_block_tree(d.root, d.root_qc, d.root_li, d.blocks,
                              d.quorum_certs, th[t].prev_htc,
                              state_computer.committed_trees, th[t].max_pruned)
               = build_block_tree(d.root, d.root_qc, d.root_li,
                                  SortByRound(Range(d.blocks)),
                                  d.quorum_certs, th[t].prev_htc,
                                  state_computer.committed_trees, th[t].max_pruned)

\* The authors whose votes for digest d are pending.
Signers(tree, d) ==
    IF d \in DOMAIN tree.pending_votes.li_digest_to_votes
    THEN tree.pending_votes.li_digest_to_votes[d].authors ELSE {}

\* The tree apart from its pending votes.
TreeIndexes(tree) == [tree EXCEPT !.pending_votes = NoPendingVotes]

C32_DuplicateVoteIdempotent ==
    [][\A t \in Threads :
          Starts(t, "insert_vote")
            => LET vote == th'[t].vote
                   dup == /\ vote.author \in PendingAuthors(inner)
                          /\ inner.pending_votes.author_to_vote[vote.author].digest
                               = vote.digest
               IN /\ dup <=> th'[t].vote_res.kind = "DuplicateVote"
                  /\ dup => /\ inner' = inner
                            /\ th'[t].vote_res = VoteResult("DuplicateVote", 0, NoQC)
                  /\ \A d \in Digests :
                        Signers(inner', d) \ Signers(inner, d) \subseteq
                            {vote.author} \ Signers(inner, vote.digest)]_vars

\* C32 witness: an author's vote was added, and the same vote, inserted
\* again, returned DuplicateVote with one signer on the digest.
C32_Witness ==
    \E t, u \in Threads :
        /\ t # u
        /\ Returned(t, "insert_vote", "ok") /\ th[t].vote_res.kind = "VoteAdded"
        /\ Returned(u, "insert_vote", "ok") /\ th[u].vote_res.kind = "DuplicateVote"
        /\ th[u].vote = th[t].vote
        /\ Signers(inner, th[t].vote.digest) = {th[t].vote.author}

\* C33: a vote by an author whose pending vote of the same round signs
\* another digest returns EquivocateVote and is counted for no digest; the
\* first vote a store receives under the four-validator verifier returns
\* VoteAdded(1).
C33_EquivocationRejected ==
    [][\A t \in Threads :
          Starts(t, "insert_vote")
            => LET vote == th'[t].vote
                   equivocates ==
                      /\ vote.author \in PendingAuthors(inner)
                      /\ inner.pending_votes.author_to_vote[vote.author].digest
                           # vote.digest
                      /\ inner.pending_votes.author_to_vote[vote.author].block_info.round
                           = vote.block_info.round
               IN /\ equivocates
                       => /\ th'[t].vote_res = VoteResult("EquivocateVote", 0, NoQC)
                          /\ inner' = inner
                  /\ th'[t].vote_res.kind = "EquivocateVote" => equivocates
                  /\ (PendingAuthors(inner) = {} /\ th'[t].verifier = FourVerifier)
                       => th'[t].vote_res = VoteResult("VoteAdded", 1, NoQC)]_vars

\* C33 witness: an author's vote for D1 returned VoteAdded(1), the author's
\* vote for D2 returned EquivocateVote, and D2 has no signer.
C33_Witness ==
    \E t, u \in Threads :
        /\ Returned(t, "insert_vote", "ok")
        /\ th[t].vote_res = VoteResult("VoteAdded", 1, NoQC)
        /\ th[t].vote.digest = D1
        /\ Returned(u, "insert_vote", "ok")
        /\ th[u].vote_res.kind = "EquivocateVote"
        /\ th[u].vote = Vote(th[t].vote.author, D2)
        /\ Signers(inner, D2) = {} /\ Signers(inner, D1) = {th[t].vote.author}

\* C34: insert_vote changes nothing of the tree but the pending votes, and
\* nothing of the storage, whatever it returns and whether or not the voted
\* block is stored; the certificates of the tree change only in the insert
\* step of insert_single_quorum_cert.
C34_VoteLeavesIndexes ==
    [][/\ \A t \in Threads :
            Starts(t, "insert_vote")
              => /\ TreeIndexes(inner') = TreeIndexes(inner)
                 /\ UNCHANGED <<storage, saved_ok, state_computer>>
       /\ TreeIndexes(inner') # TreeIndexes(inner)
            => \E t \in Threads : Acted(t) /\ th[t].pc = "qc_insert"]_vars

\* C34 witness: a vote formed the certificate for A1, which the store does
\* not hold; the store has no certificate for A1 and its highest certificate
\* is the genesis one.
C34_Witness ==
    \E t \in Threads :
        /\ Returned(t, "insert_vote", "ok")
        /\ th[t].vote_res.kind = "NewQuorumCertificate"
        /\ th[t].vote_res.qc = QcA1
        /\ A1 \notin Stored
        /\ A1 \notin DOMAIN inner.id_to_quorum_cert
        /\ inner.highest_quorum_cert = QcG

\* C35: at the execution step of a block with payload whose parent is not
\* the root and has a validator set pending, the call returns an error
\* whatever the state computer would answer, with nothing saved and the tree
\* as it was; the block is not stored by that call.
C35_SuffixPayloadRejected ==
    [][\A t \in Threads :
          (Acted(t) /\ th[t].pc = "execute" /\ HasPayload[th[t].blk]
             /\ th[t].parent_out.validators
             /\ inner.root_id # Parent[th[t].blk])
            => /\ th'[t].pc = "done" /\ th'[t].res = "err" /\ th'[t].at = "execute"
               /\ th'[t].ret = NoOutput
               /\ UNCHANGED <<inner, storage, saved_ok, state_computer>>]_vars

\* C35 witness: the call for P returned an error from the execution step
\* while its parent R, with a validator set pending, was stored under the
\* root G; P is neither in the tree nor in the storage.
C35_Witness ==
    \E t \in Threads :
        /\ Returned(t, "execute_and_insert_block", "err")
        /\ th[t].blk = P /\ th[t].at = "execute"
        /\ R \in Stored /\ inner.id_to_block[R].validators
        /\ inner.root_id = G
        /\ P \notin Stored /\ P \notin storage.blocks /\ P \notin saved_ok.blocks

\* C36: a block that the storage.prune_tree of a commit deletes has already
\* left the primary index of the tree.
C36_MemoryPrunedBeforeStorage ==
    [][\A t \in Threads :
          (Acted(t) /\ th[t].pc = "prune_storage")
            => \A b \in storage.blocks \ storage'.blocks : b \notin Stored]_vars

\* The blocks of a tree that rebuild has built which are in the tree when
\* rebuild returns: the tree from the block of its highest ledger info on
\* where the catch-up commit runs, the whole tree otherwise.
RebuiltBlocks(tree) ==
    LET li == tree.highest_ledger_info.commit
        last == IF li.round > Round[tree.root_id] /\ block_exists(tree, li.id)
                THEN li.id ELSE tree.root_id
    IN {b \in DOMAIN tree.id_to_block : b = last \/ DescendsFrom(b, last)}

\* C37: the storage.prune_tree of rebuild deletes from the storage no block
\* that is in the tree when rebuild returns.
C37_RebuildPrunesStaleOnly ==
    [][\A t \in Threads :
          (Acted(t) /\ th[t].pc = "rebuild_prune")
            => (storage.blocks \ storage'.blocks)
                 \cap RebuiltBlocks(th[t].tree) = {}]_vars

\* C38: the path a commit hands to state_computer.commit is not empty and
\* ends with the block to commit.
C38_CommitPathNonEmpty ==
    \A t \in Threads :
        th[t].pc = "commit_sc"
          => th[t].path # <<>> /\ th[t].path[Len(th[t].path)] = th[t].blk

\* C39: an execute_and_insert_block that returns an error leaves in the
\* storage no block of its own: it does not fail after its save_tree.
C39_ErrorLeavesNothingSaved ==
    [][\A t \in Threads :
          (Acted(t) /\ th[t].op = "execute_and_insert_block"
             /\ th'[t].pc = "done" /\ th'[t].res = "err")
            => th[t].pc # "insert"]_vars

\* C40: when no insert_timeout_certificate is in progress, the timeout
\* certificate in the storage has the round of highest_timeout_cert().
C40_StoredTcIsHighest ==
    (\A t \in Threads : th[t].pc \in {"idle", "done"})
      => storage.highest_timeout_cert.round = inner.highest_timeout_cert.round

====
